---- MODULE Spec2Model ----
(***************************************************************************)
(* Order synchronisation and notification subsystem of the shipping        *)
(* dashboard (fdapp-frontend).                                             *)
(*                                                                         *)
(* Modelled components:                                                    *)
(*   Dashboard       polling interval, visibility handling, fetchOrders,   *)
(*                   handleStatusUpdate (components/dashboard/Dashboard)   *)
(*   AppContent      renders <Dashboard key={Date.now()}>, so a re-render  *)
(*                   of AppContent replaces the Dashboard instance         *)
(*   useNotification permission state, toast queue and toast timers        *)
(*   backend         the order list behind GET /shipping/orders and        *)
(*                   PATCH /shipping/orders/:id/status                     *)
(*                                                                         *)
(* Status names are the English names of the six Korean status strings of  *)
(* the source: received = 접수완료, preparing = 배송준비, in_transit = 배송중,   *)
(* delivered = 배송완료, cancelled = 취소, returned = 반송.                    *)
(* Time is counted in units of 5000 ms, which divides both timer delays    *)
(* of the model (10000 ms interval, 5000 ms toast).                        *)
(***************************************************************************)
EXTENDS Integers, Sequences, FiniteSets, TLC

\* ------------------------------------------------------------------ bounds
\* number of orders held by the backend
NumOrders == 1
\* number of orders held by the backend where a claim is about several orders
NumFrameOrders == 2
\* cap on GET /shipping/orders requests in flight at once
MaxInFlight == 2
\* cap on toasts in the active sequence (and on pending toast timers)
MaxToasts == 1
\* cap on toasts a client of the hook's showToast keeps in the active sequence
MaxApiToasts == 2
\* cap of the counter of ticks skipped during one hidden period
MaxMissed == 3

\* ------------------------------------------------------- program constants
\* setInterval period of the auto-refresh effect: 10000 ms
RefreshPeriod == 2
\* timeout of the status-change toast: 5000 ms
StatusToastTimeout == 1
\* showToast's timeout when the toast carries none (or 0): 5000 ms
DefaultToastTimeout == 1

\* -------------------------------------------------------------- statuses
\* statuses other clients set at the backend in this model
BackendStatuses == {"received", "delivered"}

\* timeouts a caller of showToast passes in this model, in time units:
\* negative, zero, 5000 ms and 10000 ms
ToastTimeouts == {-1, 0, 1, 2}

\* the keys of the statusMessages table
TableStatuses ==
  {"received", "preparing", "in_transit", "delivered", "cancelled", "returned"}

\* property names every object literal inherits from Object.prototype; a
\* lookup statusMessages[key] with such a key yields a function or an object
ObjectPrototypeKeys == {"constructor", "toString", "valueOf", "hasOwnProperty", "__proto__"}

\* statuses a caller of notifyOrderStatusChange passes in this model: the
\* table's, one no object knows and one inherited property name
NotifyStatuses == TableStatuses \cup {"unknown", "constructor"}

\* statuses the operator picks in the status dropdown in this model
PickedStatuses == {"received", "delivered"}

OrderIds == 1..NumOrders

\* all order lists the backend can hold: order i has id i
OrderLists ==
  { [i \in OrderIds |-> [id |-> i, status |-> f[i]]] :
      f \in [OrderIds -> BackendStatuses] }

\* the order lists of NumFrameOrders orders
FrameOrderLists ==
  { [i \in 1..NumFrameOrders |-> [id |-> i, status |-> f[i]]] :
      f \in [1..NumFrameOrders -> BackendStatuses] }

\* status strings an order of the GET response carries where the statistics
\* are checked: the six the Dashboard counts and one it does not know
ServerStatuses == TableStatuses \cup {"unknown"}

\* the order lists of NumFrameOrders orders over ServerStatuses
StatsOrderLists ==
  { [i \in 1..NumFrameOrders |-> [id |-> i, status |-> f[i]]] :
      f \in [1..NumFrameOrders -> ServerStatuses] }

NoOrder == [id |-> 0, status |-> "none"]
NoHandle == 0
NoPrompt == [open |-> FALSE, from |-> "none", orderId |-> 0, status |-> "none"]
\* orderId of the notification test button
TestOrderId == 123
NoUpdate ==
  [phase |-> "idle", orderId |-> 0, status |-> "none", perm |-> "none", own |-> FALSE,
   sel |-> NoOrder]
\* a step that settled no handler promise, called no notifier, delivered no OS
\* notification, called no requestPermission(), showed no toast and took no
\* toast out of the active sequence
NoObs ==
  [outcome |-> "none", notified |-> <<>>, os |-> <<>>, asked |-> FALSE,
   toasted |-> FALSE, removed |-> {}]

\* ------------------------------------------------------ pure functions
\* the snapshot's order with the given id carries the given status
Shows(list, orderId, status) ==
  \E k \in 1..Len(list) : list[k].id = orderId /\ list[k].status = status

\* number of orders of a list with the given status (Array.filter(...).length)
CountStatus(list, s) ==
  Cardinality({i \in 1..Len(list) : list[i].status = s})

\* statistics with a fallback bucket: an order of unknown status is counted
\* as received
ComputeStatsWithFallback(list) ==
  [total      |-> Len(list),
   received   |-> Len(list) - CountStatus(list, "preparing") - CountStatus(list, "in_transit")
                    - CountStatus(list, "delivered") - CountStatus(list, "cancelled")
                    - CountStatus(list, "returned"),
   preparing  |-> CountStatus(list, "preparing"),
   in_transit |-> CountStatus(list, "in_transit"),
   delivered  |-> CountStatus(list, "delivered"),
   cancelled  |-> CountStatus(list, "cancelled"),
   returned   |-> CountStatus(list, "returned")]

\* newStats of fetchOrders
ComputeStats(list) ==
  [total      |-> Len(list),
   received   |-> CountStatus(list, "received"),
   preparing  |-> CountStatus(list, "preparing"),
   in_transit |-> CountStatus(list, "in_transit"),
   delivered  |-> CountStatus(list, "delivered"),
   cancelled  |-> CountStatus(list, "cancelled"),
   returned   |-> CountStatus(list, "returned")]

\* useState initial value of stats
InitialStats ==
  [total |-> 0, received |-> 0, preparing |-> 0, in_transit |-> 0,
   delivered |-> 0, cancelled |-> 0, returned |-> 0]

\* a table whose entries all carry the color info
StatusInfoAllInfo(s) ==
  CASE s = "received"   -> [title |-> "order received",   color |-> "info"]
    [] s = "preparing"  -> [title |-> "preparing",        color |-> "info"]
    [] s = "in_transit" -> [title |-> "shipping started", color |-> "info"]
    [] s = "delivered"  -> [title |-> "delivered",        color |-> "info"]
    [] s = "cancelled"  -> [title |-> "order cancelled",  color |-> "info"]
    [] s = "returned"   -> [title |-> "order returned",   color |-> "info"]
    [] s \in ObjectPrototypeKeys
                        -> [title |-> "undefined",        color |-> "undefined"]
    [] OTHER            -> [title |-> "status changed",   color |-> "info"]

\* a lookup that tests for the table's own keys
StatusInfoOwnKeys(s) ==
  CASE s = "received"   -> [title |-> "order received",   color |-> "info"]
    [] s = "preparing"  -> [title |-> "preparing",        color |-> "info"]
    [] s = "in_transit" -> [title |-> "shipping started", color |-> "info"]
    [] s = "delivered"  -> [title |-> "delivered",        color |-> "success"]
    [] s = "cancelled"  -> [title |-> "order cancelled",  color |-> "warning"]
    [] s = "returned"   -> [title |-> "order returned",   color |-> "error"]
    [] OTHER            -> [title |-> "status changed",   color |-> "info"]

\* statusMessages[status] || default of notifyOrderStatusChange: the six
\* entries; for a name inherited from Object.prototype the lookup yields a
\* truthy value that is no entry, whose title and color are undefined; the
\* default entry for every other status
StatusInfo(s) ==
  CASE s = "received"   -> [title |-> "order received",   color |-> "info"]
    [] s = "preparing"  -> [title |-> "preparing",        color |-> "info"]
    [] s = "in_transit" -> [title |-> "shipping started", color |-> "info"]
    [] s = "delivered"  -> [title |-> "delivered",        color |-> "success"]
    [] s = "cancelled"  -> [title |-> "order cancelled",  color |-> "warning"]
    [] s = "returned"   -> [title |-> "order returned",   color |-> "error"]
    [] s \in ObjectPrototypeKeys
                        -> [title |-> "undefined",        color |-> "undefined"]
    [] OTHER            -> [title |-> "status changed",   color |-> "info"]

\* ------------------------------------------------------------- variables
VARIABLES
  \* environment
  docHidden,            \* document.hidden
  backend,              \* the order list held by the server
  timed,                \* TRUE: timers fire when their delay has elapsed;
                        \* FALSE: delays are abstracted, a live timer may fire at any moment
  intervals,            \* live setInterval timers: records [h, rem]
  toastTimers,          \* pending setTimeout timers of toasts: records [id, rem, tmo]
                        \* (the toast's id, the delay left, the delay it was started with)
  \* AppContent and useNotification
  currentPage,          \* "dashboard" or "new-order"
  permission,           \* useNotification's permission state
  toasts,               \* the active toast sequence
  prompt,               \* the browser's permission prompt, if open, and the call that waits
                        \* for its answer: the banner's, or a notifyOrderStatusChange call
                        \* with its order id and status
  spinning,             \* a showBrowserNotification call is re-requesting permission without end
  \* the mounted Dashboard instance
  orders, stats, loading, isRefreshing, isAutoRefreshEnabled,
  intervalRef, visibilityRef, selectedOrder, isModalOpen,
  \* asynchronous work
  requests,             \* GETs in flight, in issue order: [st, body, cause, own, awaited]
  upd,                  \* the handleStatusUpdate call in progress
  \* history
  last,                 \* the program's last step: its name, the refreshes it started, the
                        \* cause of the refresh it settled and, when it settled a
                        \* successful refresh, what the program's step before it was: the
                        \* cause of the successful refresh that one settled, or "updated"
                        \* when handleStatusUpdate finished with the snapshot showing the
                        \* new status
  userDisabled,         \* the operator switched auto-refresh off and has not switched it on since
  sinceAuto,            \* time units since the last mount- or tick-started refresh (capped)
  missedTicks,          \* ticks skipped during the current or most recent hidden period (capped)
  unhandled,            \* a promise nobody awaits was rejected, or an error left a timer callback
  obs,                  \* what the program's last step did towards its callers and the user:
                        \* [outcome, notified, os, asked, toasted, removed]
  \* authentication and the permission banner
  userRole,             \* role of the authenticated user, "none" while nobody is logged in
  showPermissionRequest,\* AppContent's flag that renders NotificationPermission
  bannerTimers,         \* pending setTimeout of the banner effect: records [rem], in
                        \* units of 1000 ms of the banner clock
  sinceAuth,            \* banner-clock units since the current user was authenticated (capped)
  dismissed,            \* the banner was dismissed during this page load
  hasToken              \* localStorage holds a jwt_token

envVars == <<docHidden, backend, timed>>
timerVars == <<intervals, toastTimers>>
appVars == <<currentPage, permission, toasts, prompt, spinning>>
dashVars ==
  <<orders, stats, loading, isRefreshing, isAutoRefreshEnabled,
    intervalRef, visibilityRef, selectedOrder, isModalOpen>>
asyncVars == <<requests, upd>>
histVars == <<last, userDisabled, sinceAuto, missedTicks, unhandled, obs>>
bannerVars == <<userRole, showPermissionRequest, bannerTimers, sinceAuth, dismissed, hasToken>>
vars == <<envVars, timerVars, appVars, dashVars, asyncVars, histVars, bannerVars>>

\* the Dashboard is rendered exactly when a user is authenticated and the
\* dashboard page is current
Mounted == userRole # "none" /\ currentPage = "dashboard"

\* -------------------------------------------------- the Dashboard instance
\* the state of the mounted Dashboard as one value
Dash ==
  [orders |-> orders, stats |-> stats, loading |-> loading,
   isRefreshing |-> isRefreshing, isAutoRefreshEnabled |-> isAutoRefreshEnabled,
   intervalRef |-> intervalRef, visibilityRef |-> visibilityRef,
   selectedOrder |-> selectedOrder, isModalOpen |-> isModalOpen]

SetDash(d) ==
  /\ orders' = d.orders
  /\ stats' = d.stats
  /\ loading' = d.loading
  /\ isRefreshing' = d.isRefreshing
  /\ isAutoRefreshEnabled' = d.isAutoRefreshEnabled
  /\ intervalRef' = d.intervalRef
  /\ visibilityRef' = d.visibilityRef
  /\ selectedOrder' = d.selectedOrder
  /\ isModalOpen' = d.isModalOpen

\* an instance that starts with auto-refresh switched off
FreshDashAutoRefreshOff(h) ==
  [orders |-> <<>>, stats |-> InitialStats, loading |-> TRUE,
   isRefreshing |-> FALSE, isAutoRefreshEnabled |-> FALSE,
   intervalRef |-> h, visibilityRef |-> TRUE,
   selectedOrder |-> NoOrder, isModalOpen |-> FALSE]

\* useState / useRef initial values of a Dashboard instance, after its mount
\* effects ran: the interval effect stored handle h, the mount effect called
\* fetchOrders(), which set loading (already true)
FreshDash(h) ==
  [orders |-> <<>>, stats |-> InitialStats, loading |-> TRUE,
   isRefreshing |-> FALSE, isAutoRefreshEnabled |-> TRUE,
   intervalRef |-> h, visibilityRef |-> TRUE,
   selectedOrder |-> NoOrder, isModalOpen |-> FALSE]

\* what the Dashboard variables hold while no Dashboard is rendered
NoDash ==
  [orders |-> <<>>, stats |-> InitialStats, loading |-> FALSE,
   isRefreshing |-> FALSE, isAutoRefreshEnabled |-> FALSE,
   intervalRef |-> NoHandle, visibilityRef |-> FALSE,
   selectedOrder |-> NoOrder, isModalOpen |-> FALSE]

\* ------------------------------------------------------ interval timers
\* setInterval returns a handle no live timer has
NewHandle(ivs) ==
  CHOOSE h \in 1..(Cardinality(ivs) + 1) :
    /\ \A t \in ivs : t.h # h
    /\ \A k \in 1..(h - 1) : \E t \in ivs : t.h = k

\* a cleanup that leaves the timer running
EffectCleanupLeavesTimer(ivs, ref) == ivs

\* cleanup of the auto-refresh effect: clearInterval(intervalRef.current) if set
EffectCleanup(ivs, ref) ==
  IF ref # NoHandle THEN {t \in ivs : t.h # ref} ELSE ivs

\* body of the auto-refresh effect for the given isAutoRefreshEnabled
IntervalEffect(enabled, ivs, ref) ==
  IF enabled
    THEN LET h == NewHandle(ivs)
         IN [ivs |-> ivs \cup {[h |-> h, rem |-> RefreshPeriod]}, ref |-> h]
    ELSE IF ref # NoHandle
           THEN [ivs |-> {t \in ivs : t.h # ref}, ref |-> NoHandle]
           ELSE [ivs |-> ivs, ref |-> ref]

\* a timer whose delay has elapsed; with delays abstracted, any live timer
Due(t) == timed => t.rem = 0

\* --------------------------------------------------------------- requests
\* a GET /shipping/orders just issued by fetchOrders
NewRequest(cause, own, awaited) ==
  [st |-> "pending", body |-> <<>>, cause |-> cause, own |-> own, awaited |-> awaited]

\* The requests of an instance that is unmounted. They stay in flight, but the
\* setState calls of their fetchOrders do nothing any more: only the one
\* handleStatusUpdate awaits still has an effect (the notification) and is kept.
Disown(reqs) ==
  [i \in 1..Len(SelectSeq(reqs, LAMBDA r : r.awaited)) |->
     [SelectSeq(reqs, LAMBDA r : r.awaited)[i] EXCEPT !.own = FALSE]]

RemoveAt(seq, i) == [k \in 1..(Len(seq) - 1) |-> IF k < i THEN seq[k] ELSE seq[k + 1]]

\* the synchronous head of fetchOrders(showRefreshIndicator)
FetchOrdersStart(d, showRefreshIndicator) ==
  IF showRefreshIndicator
    THEN [d EXCEPT !.isRefreshing = TRUE]
    ELSE [d EXCEPT !.loading = TRUE]

\* a tail of fetchOrders that empties the snapshot when the GET failed
FetchOrdersSettleClearsOnError(d, r) ==
  LET got == IF r.st = "ok"
               THEN [d EXCEPT !.orders = r.body, !.stats = ComputeStats(r.body)]
               ELSE [d EXCEPT !.orders = <<>>, !.stats = InitialStats]
  IN [got EXCEPT !.loading = FALSE, !.isRefreshing = FALSE]

\* a tail of fetchOrders that counts the list it held before the response
FetchOrdersSettleStaleStats(d, r) ==
  LET got == IF r.st = "ok"
               THEN [d EXCEPT !.orders = r.body, !.stats = ComputeStats(d.orders)]
               ELSE d
  IN [got EXCEPT !.loading = FALSE, !.isRefreshing = FALSE]

\* a tail of fetchOrders that merges the response into the list it holds
FetchOrdersSettleMerges(d, r) ==
  LET got == IF r.st = "ok"
               THEN [d EXCEPT !.orders = d.orders \o r.body,
                              !.stats = ComputeStats(d.orders \o r.body)]
               ELSE d
  IN [got EXCEPT !.loading = FALSE, !.isRefreshing = FALSE]

\* a tail of fetchOrders that takes a response only while it holds no orders,
\* so that the first completion wins
FetchOrdersSettleKeepsFirst(d, r) ==
  LET got == IF r.st = "ok" /\ d.orders = <<>>
               THEN [d EXCEPT !.orders = r.body, !.stats = ComputeStats(r.body)]
               ELSE d
  IN [got EXCEPT !.loading = FALSE, !.isRefreshing = FALSE]

\* a tail of fetchOrders that takes a response only while an indicator is
\* on, so that a response arriving after a later completion is dropped
FetchOrdersSettleIfIndicated(d, r) ==
  LET got == IF r.st = "ok" /\ (d.loading \/ d.isRefreshing)
               THEN [d EXCEPT !.orders = r.body, !.stats = ComputeStats(r.body)]
               ELSE d
  IN [got EXCEPT !.loading = FALSE, !.isRefreshing = FALSE]

\* the tail of fetchOrders after the awaited GET settled with response r
FetchOrdersSettle(d, r) ==
  LET got == IF r.st = "ok"
               THEN [d EXCEPT !.orders = r.body, !.stats = ComputeStats(r.body)]
               ELSE d
  IN [got EXCEPT !.loading = FALSE, !.isRefreshing = FALSE]

\* a catch clause that issues the failed GET again
FetchOrdersCatchRetries(reqs, r) ==
  IF r.st = "ok" THEN reqs ELSE Append(reqs, NewRequest(r.cause, r.own, FALSE))

\* the requests in flight after fetchOrders' catch clause took the failure of
\* response r: it logs the error and issues nothing
FetchOrdersCatch(reqs, r) == reqs

\* a fetchOrders without its catch clause: a failed GET rejects the promise
FetchOrdersOutcomeRethrows(r) == IF r.st = "ok" THEN "fulfilled" ELSE "rejected"

\* the promise fetchOrders returns: its catch clause takes every error of the
\* try block, so the promise is fulfilled either way
FetchOrdersOutcome(r) == IF r.st = "ok" THEN "fulfilled" ELSE "caught"

\* ----------------------------------------------------------------- toasts
\* an id no active toast and no pending toast timer carries
FreshToastId(ts, tms) ==
  CHOOSE n \in 1..(Len(ts) + Cardinality(tms) + 1) :
    /\ \A i \in 1..Len(ts) : ts[i].id # n
    /\ \A t \in tms : t.id # n

\* the ids of the toasts that can have been created in the current
\* millisecond, whether they are still in the active sequence or were removed
\* from it with their timer pending: with delays abstracted, any; in real
\* time, those whose timer still has its full delay to run
SameMillisecondIds(ts, tms) ==
  {ts[i].id : i \in {j \in 1..Len(ts) :
                      timed => \E t \in tms : t.id = ts[j].id /\ t.rem = ts[j].timeout}}
    \cup {t.id : t \in {u \in tms : timed => u.rem = u.tmo}}

\* the ids Date.now().toString() + Math.random().toString(36).substr(2, 9)
\* can be: one that no toast and no pending timer carries, or, when
\* Math.random() repeats a value within one millisecond, the id of a toast
\* created in that millisecond
ToastIdChoices(ts, tms) == {FreshToastId(ts, tms)} \cup SameMillisecondIds(ts, tms)

\* showToast: append the toast, start its expiry timer when timeout > 0
ShowToast(ts, tms, type, title, timeout, id) ==
  LET tmo == IF timeout = 0 THEN DefaultToastTimeout ELSE timeout
  IN [toasts |-> Append(ts, [id |-> id, type |-> type, title |-> title, timeout |-> tmo]),
      timers |-> IF tmo > 0 THEN tms \cup {[id |-> id, rem |-> tmo, tmo |-> tmo]} ELSE tms]

\* a removeToast that filters nothing out
RemoveToastByIdKeepsAll(ts, id) == ts

\* a removeToast that drops the oldest toast whatever its id is
RemoveToastByIdDropsOldest(ts, id) == IF ts = <<>> THEN ts ELSE Tail(ts)

\* removeToast: filter the toast out
RemoveToastById(ts, id) == SelectSeq(ts, LAMBDA t : t.id # id)

\* ------------------------------------------- rendering of AppContent
\* The Dashboard subtree after a handler, when AppContent did not re-render or
\* re-rendered within the millisecond of its previous render (same key).
KeepInstance(d, ivs, reqs, u, act, started, o) ==
  /\ SetDash(d)
  /\ intervals' = ivs
  /\ requests' = reqs
  /\ upd' = u
  /\ last' = [act |-> act, started |-> started, settled |-> "none", before |-> "none"]
  /\ sinceAuto' = IF started = <<"tick">> THEN 0 ELSE sinceAuto
  /\ obs' = o

\* AppContent re-rendered with a new Date.now() key while the dashboard page is
\* current: the old instance is unmounted (effect cleanup) and a new one is
\* mounted (initial state, interval effect, mount-time fetchOrders()).
Remount(d, ivs, reqs, u, act, started, o) ==
  LET cleared == EffectCleanup(ivs, d.intervalRef)
      eff == IntervalEffect(TRUE, cleared, NoHandle)
  IN /\ Len(reqs) < MaxInFlight
     /\ SetDash(FreshDash(eff.ref))
     /\ intervals' = eff.ivs
     /\ requests' = Append(Disown(reqs), NewRequest("mount", TRUE, FALSE))
     /\ upd' = [u EXCEPT !.own = FALSE]
     /\ last' = [act |-> act, started |-> Append(started, "remount"), settled |-> "none",
                 before |-> "none"]
     /\ sinceAuto' = 0
     /\ obs' = o

\* a re-render of AppContent after one of its states changed
Render(d, ivs, reqs, u, act, started, o) ==
  \E keyChanged \in BOOLEAN :
    IF Mounted /\ keyChanged
      THEN Remount(d, ivs, reqs, u, act, started, o)
      ELSE KeepInstance(d, ivs, reqs, u, act, started, o)

\* a notification that asks for interaction whatever the status is
StatusNotificationAlwaysInteractive(orderId, status) ==
  [title |-> StatusInfo(status).title, tag |-> <<"order-", orderId>>,
   requireInteraction |-> TRUE]

\* the OS notification notifyOrderStatusChange asks for (tag = order-<orderId>)
StatusNotification(orderId, status) ==
  [title |-> StatusInfo(status).title, tag |-> <<"order-", orderId>>,
   requireInteraction |-> (status = "delivered")]

\* showBrowserNotification after its requestPermission() resolved with result.
\* On granted the callback calls itself: the same closure, holding the same
\* permission perm, which took it to requestPermission() in the first place.
\* That request resolves to granted at once and the call repeats without end.
AfterPermissionRequest(perm, result) ==
  IF result = "granted"
    THEN IF perm = "default" THEN "spin" ELSE "returned"
    ELSE "returned"

\* a showBrowserNotification that constructs the notification whatever the
\* permission is
ShowBrowserNotificationUnguarded(perm, actual, note) ==
  [os |-> <<note>>, asked |-> FALSE, next |-> "returned"]

\* showBrowserNotification called through a closure that holds perm while the
\* browser holds actual: the OS notifications it delivers and how it goes on
\* (returned; prompt: waiting for the user's answer; spin)
ShowBrowserNotification(perm, actual, note) ==
  IF perm = "granted"
    THEN [os |-> <<note>>, asked |-> FALSE, next |-> "returned"]
    ELSE IF perm = "default"
           THEN [os |-> <<>>, asked |-> TRUE,
                 next |-> IF actual = "default"
                            THEN "prompt"
                            ELSE AfterPermissionRequest(perm, actual)]
           ELSE [os |-> <<>>, asked |-> FALSE, next |-> "returned"]

\* the record of a step in which notifyOrderStatusChange was called
NotifyObs(outcome, orderId, status, sb, toasted) ==
  [outcome |-> outcome, notified |-> <<[orderId |-> orderId, status |-> status]>>,
   os |-> sb.os, asked |-> sb.asked, toasted |-> toasted, removed |-> {}]

\* notifyOrderStatusChange called with the permission its closure holds:
\* await showBrowserNotification(...), then showToast(...)
Notify(perm, orderId, status, d, ivs, reqs, u, act, started, outcome) ==
  LET sb == ShowBrowserNotification(perm, permission, StatusNotification(orderId, status))
  IN CASE sb.next = "prompt" ->
            \* the browser shows its prompt; the call waits for the answer
            /\ ~prompt.open
            /\ prompt' = [open |-> TRUE, from |-> "notify", orderId |-> orderId,
                          status |-> status]
            /\ UNCHANGED <<toasts, toastTimers, permission, spinning>>
            /\ KeepInstance(d, ivs, reqs, u, act, started,
                            NotifyObs(outcome, orderId, status, sb, FALSE))
       [] sb.next = "spin" ->
            /\ spinning' = TRUE
            /\ UNCHANGED <<toasts, toastTimers, permission, prompt>>
            /\ KeepInstance(d, ivs, reqs, u, act, started,
                            NotifyObs(outcome, orderId, status, sb, FALSE))
       [] sb.next = "returned" ->
            /\ Len(toasts) < MaxToasts
            /\ Cardinality(toastTimers) < MaxToasts
            /\ \E id \in ToastIdChoices(toasts, toastTimers) :
                 LET r == ShowToast(toasts, toastTimers, StatusInfo(status).color,
                                    StatusInfo(status).title, StatusToastTimeout, id)
                 IN /\ toasts' = r.toasts
                    /\ toastTimers' = r.timers
            /\ UNCHANGED <<prompt, permission, spinning>>
            /\ Render(d, ivs, reqs, u, act, started,
                      NotifyObs(outcome, orderId, status, sb, TRUE))

\* ------------------------------------------------- the permission banner
\* delay of the banner effect's setTimeout: 2000 ms
BannerDelay == 2

\* roles the banner effect and the test button are meant for
PrivilegedRoles == {"admin", "manager"}

\* roles of the users who log in in this model
LoginRoles == {"admin", "user"}

\* the banner effect after its dependencies (isAuthenticated, user?.role,
\* permission) changed: the cleanup cleared the pending timer, a new one is
\* started for a privileged user while permission is default
BannerEffect(role, perm) ==
  IF role \in PrivilegedRoles /\ perm = "default"
    THEN {[rem |-> BannerDelay]}
    ELSE {}

\* a banner that is rendered whatever the permission is
BannerShownWhateverPermission(role, flag, perm) == role # "none" /\ flag

\* NotificationPermission is on screen: AppContent renders it in its
\* authenticated branch while showPermissionRequest is set, and the component
\* returns null once permission is granted (its isDismissed is false whenever
\* it is mounted, since dismissing clears showPermissionRequest as well)
BannerShown(role, flag, perm) == role # "none" /\ flag /\ perm # "granted"

BannerDisplayed == BannerShown(userRole, showPermissionRequest, permission)

\* the page after a load that restored the session of a user with that role
InitBanner(role) ==
  /\ userRole = role
  /\ showPermissionRequest = FALSE
  /\ bannerTimers = BannerEffect(role, permission)
  /\ sinceAuth = 0
  /\ dismissed = FALSE
  /\ hasToken = TRUE

\* ------------------------------------------------------------------ Init
InitCommon ==
  /\ intervals = {[h |-> 1, rem |-> RefreshPeriod]}
  /\ toastTimers = {}
  /\ currentPage = "dashboard"
  /\ toasts = <<>>
  /\ prompt = NoPrompt
  /\ spinning = FALSE
  /\ orders = <<>>
  /\ stats = InitialStats
  /\ loading = TRUE
  /\ isRefreshing = FALSE
  /\ isAutoRefreshEnabled = TRUE
  /\ intervalRef = 1
  /\ visibilityRef = TRUE
  /\ selectedOrder = NoOrder
  /\ isModalOpen = FALSE
  /\ requests = <<NewRequest("mount", TRUE, FALSE)>>
  /\ upd = NoUpdate
  /\ last = [act |-> "Mount", started |-> <<"mount">>, settled |-> "none", before |-> "none"]
  /\ obs = NoObs
  /\ userDisabled = FALSE
  /\ sinceAuto = 0
  /\ missedTicks = 0
  /\ unhandled = FALSE

\* The page right after a privileged user's Dashboard was mounted, the
\* permission state read from Notification.permission as granted.
\* Timer delays are abstracted and the page is visible.
Init ==
  /\ InitCommon
  /\ timed = FALSE
  /\ docHidden = FALSE
  /\ backend \in OrderLists
  /\ permission = "granted"
  /\ InitBanner("admin")

\* The same page with timers that fire when their delay has elapsed, visible
\* or hidden (a tab opened in the background).
InitSched ==
  /\ InitCommon
  /\ timed = TRUE
  /\ docHidden \in BOOLEAN
  /\ backend = [i \in OrderIds |-> [id |-> i, status |-> "received"]]
  /\ permission = "granted"
  /\ InitBanner("admin")

\* ------------------------------------------------ Dashboard: the scheduler
\* the interval callback: fetchOrders(true) only if visibilityRef.current
TickRefreshes(visRef) == visRef

\* a visibility handler that refreshes on every visibility change
VisibilityRefreshesOnEveryChange(hidden, enabled) == enabled

\* handleVisibilityChange: fetchOrders(true) if the page became visible and
\* auto-refresh is enabled
VisibilityRefreshes(hidden, enabled) == ~hidden /\ enabled

\* one firing of the Dashboard's interval timer
Tick(t) ==
  /\ Mounted
  /\ t \in intervals
  /\ t.h = intervalRef
  /\ Due(t)
  /\ LET ivs == (intervals \ {t}) \cup {[t EXCEPT !.rem = RefreshPeriod]}
     IN IF TickRefreshes(visibilityRef)
          THEN /\ Len(requests) < MaxInFlight
               /\ KeepInstance(FetchOrdersStart(Dash, TRUE), ivs,
                               Append(requests, NewRequest("tick", TRUE, FALSE)), upd,
                               "Tick", <<"tick">>, NoObs)
               /\ missedTicks' = missedTicks
          ELSE /\ KeepInstance(Dash, ivs, requests, upd, "Tick", <<>>, NoObs)
               /\ missedTicks' = IF missedTicks < MaxMissed THEN missedTicks + 1 ELSE MaxMissed
  /\ UNCHANGED <<envVars, toastTimers, appVars, userDisabled, unhandled>>
  /\ UNCHANGED bannerVars

\* the browser's visibilitychange event
VisibilityChange ==
  /\ docHidden' = ~docHidden
  /\ missedTicks' = IF docHidden' THEN 0 ELSE missedTicks
  /\ IF Mounted
       THEN LET d == [Dash EXCEPT !.visibilityRef = ~docHidden']
            IN IF VisibilityRefreshes(docHidden', isAutoRefreshEnabled)
                 THEN /\ Len(requests) < MaxInFlight
                      /\ KeepInstance(FetchOrdersStart(d, TRUE), intervals,
                                      Append(requests, NewRequest("visible", TRUE, FALSE)), upd,
                                      "VisibilityChange", <<"visible">>, NoObs)
                 ELSE KeepInstance(d, intervals, requests, upd, "VisibilityChange", <<>>, NoObs)
       ELSE KeepInstance(Dash, intervals, requests, upd, "VisibilityChange", <<>>, NoObs)
  /\ UNCHANGED <<backend, timed, toastTimers, appVars, userDisabled, unhandled>>
  /\ UNCHANGED bannerVars

\* an effect that also aborts the GETs in flight when auto-refresh is
\* switched off
AfterToggleRequestsAborted(reqs, enabled) == IF enabled THEN reqs ELSE <<>>

\* the GETs in flight after the auto-refresh effect ran: the effect and its
\* cleanup call clearInterval only, fetchOrders passes no abort signal
AfterToggleRequests(reqs, enabled) == reqs

\* toggleAutoRefresh, then the auto-refresh effect: cleanup of the previous
\* run, then the body for the new value
ToggleAutoRefresh ==
  /\ Mounted
  /\ ~loading
  /\ LET enabled == ~isAutoRefreshEnabled
         cleared == EffectCleanup(intervals, intervalRef)
         eff == IntervalEffect(enabled, cleared, intervalRef)
     IN /\ KeepInstance([Dash EXCEPT !.isAutoRefreshEnabled = enabled,
                                     !.intervalRef = eff.ref],
                        eff.ivs, AfterToggleRequests(requests, enabled), upd,
                        "ToggleAutoRefresh", <<>>, NoObs)
        /\ userDisabled' = ~enabled
  /\ UNCHANGED <<envVars, toastTimers, appVars, missedTicks, unhandled>>
  /\ UNCHANGED bannerVars

\* a manual refresh that looks at the visibility flag as the interval callback does
ManualRefreshesIfVisible(visRef, enabled) == visRef

\* handleManualRefresh calls fetchOrders(true) whatever the visibility flag
\* and the auto-refresh switch are
ManualRefreshes(visRef, enabled) == TRUE

\* handleManualRefresh (the button is disabled while isRefreshing)
ManualRefresh ==
  /\ Mounted
  /\ ~loading
  /\ ~isRefreshing
  /\ IF ManualRefreshes(visibilityRef, isAutoRefreshEnabled)
       THEN /\ Len(requests) < MaxInFlight
            /\ KeepInstance(FetchOrdersStart(Dash, TRUE), intervals,
                            Append(requests, NewRequest("manual", TRUE, FALSE)), upd,
                            "ManualRefresh", <<"manual">>, NoObs)
       ELSE KeepInstance(Dash, intervals, requests, upd, "ManualRefresh", <<>>, NoObs)
  /\ UNCHANGED <<envVars, toastTimers, appVars, userDisabled, missedTicks, unhandled>>
  /\ UNCHANGED bannerVars

\* ------------------------------------------------- backend and its answers
\* the server answers a GET with its current list, or the request fails
ServerGet(i) ==
  /\ i \in 1..Len(requests)
  /\ requests[i].st = "pending"
  /\ \E ok \in BOOLEAN :
       requests' = [requests EXCEPT
                      ![i] = IF ok THEN [@ EXCEPT !.st = "ok", !.body = backend]
                                   ELSE [@ EXCEPT !.st = "error"]]
  /\ UNCHANGED <<envVars, timerVars, appVars, dashVars, upd, histVars>>
  /\ UNCHANGED bannerVars

\* another client changes an order's status
BackendChange(i, s) ==
  /\ i \in 1..Len(backend)
  /\ s \in BackendStatuses
  /\ backend[i].status # s
  /\ backend' = [backend EXCEPT ![i].status = s]
  /\ UNCHANGED <<docHidden, timed, timerVars, appVars, dashVars, asyncVars, histVars>>
  /\ UNCHANGED bannerVars

\* an interceptor that also ends the session
InterceptUnauthorizedLogsOut(role, token) == [role |-> "none", token |-> FALSE]

\* the response interceptor of apiClient on a 401 or 403: removeToken() and a
\* warning; the user held by useAuthProvider is not touched
InterceptUnauthorized(role, token) == [role |-> role, token |-> FALSE]

\* the server answers a GET with 401 or 403: the interceptor runs and rejects
\* as every other failure does
ServerGetUnauthorized(i) ==
  /\ i \in 1..Len(requests)
  /\ requests[i].st = "pending"
  /\ requests' = [requests EXCEPT ![i] = [@ EXCEPT !.st = "unauthorized"]]
  /\ userRole' = InterceptUnauthorized(userRole, hasToken).role
  /\ hasToken' = InterceptUnauthorized(userRole, hasToken).token
  /\ UNCHANGED <<envVars, timerVars, appVars, dashVars, upd, histVars>>
  /\ UNCHANGED <<showPermissionRequest, bannerTimers, sinceAuth, dismissed>>

\* ---------------------------------------------------- Dashboard: the modal
\* handleOrderClick on a row of the list
OrderClick(i) ==
  /\ Mounted
  /\ ~loading
  /\ ~isModalOpen
  /\ i \in 1..Len(orders)
  /\ KeepInstance([Dash EXCEPT !.selectedOrder = orders[i], !.isModalOpen = TRUE],
                  intervals, requests, upd, "OrderClick", <<>>, NoObs)
  /\ UNCHANGED <<envVars, toastTimers, appVars, userDisabled, missedTicks, unhandled>>
  /\ UNCHANGED bannerVars

\* handleCloseModal
CloseModal ==
  /\ Mounted
  /\ ~loading
  /\ isModalOpen
  /\ KeepInstance([Dash EXCEPT !.selectedOrder = NoOrder, !.isModalOpen = FALSE],
                  intervals, requests, upd, "CloseModal", <<>>, NoObs)
  /\ UNCHANGED <<envVars, toastTimers, appVars, userDisabled, missedTicks, unhandled>>
  /\ UNCHANGED bannerVars

\* ------------------------------------------- Dashboard: handleStatusUpdate
\* a catch branch that drops the snapshot
StatusUpdateCatchDropsSnapshot(d) == [d EXCEPT !.orders = <<>>, !.stats = InitialStats]

\* a success path that writes the new status into the snapshot before refreshing
AfterPatchOkPatchesSnapshot(d, orderId, newStatus) ==
  LET patched == [k \in 1..Len(d.orders) |->
                    IF d.orders[k].id = orderId
                      THEN [d.orders[k] EXCEPT !.status = newStatus]
                      ELSE d.orders[k]]
  IN FetchOrdersStart([d EXCEPT !.orders = patched, !.stats = ComputeStats(patched)], TRUE)

\* the catch branch of handleStatusUpdate: console.error only
StatusUpdateCatch(d) == d

\* a catch branch that refreshes the list after the PATCH was rejected
StatusUpdateCatchRefreshes(reqs) == Append(reqs, NewRequest("update", TRUE, FALSE))

\* the GETs in flight after the catch branch: it issues none
StatusUpdateCatchRequests(reqs) == reqs

\* handleStatusUpdate after the PATCH succeeded: await fetchOrders(true); the
\* snapshot itself is not patched
AfterPatchOk(d, orderId, newStatus) == FetchOrdersStart(d, TRUE)

\* the promise handleStatusUpdate returns to the modal's handleStatusChange:
\* its catch clause takes the rejection of the PATCH and only logs it
StatusUpdateOutcome(patch) ==
  CASE patch = "ok"       -> "fulfilled"   \* the try block ran to its end
    [] patch = "rejected" -> "fulfilled"   \* caught: console.error, no rethrow

\* handleStatusUpdate up to its first await: the PATCH is issued. The dropdown
\* option is disabled while an update runs and for the order's current status.
UpdateStart(s) ==
  /\ Mounted
  /\ ~loading
  /\ isModalOpen
  /\ selectedOrder # NoOrder
  /\ upd.phase = "idle"
  /\ s \in PickedStatuses
  /\ s # selectedOrder.status
  /\ KeepInstance(Dash, intervals, requests,
                  [phase |-> "patch", orderId |-> selectedOrder.id, status |-> s,
                   perm |-> permission, own |-> TRUE, sel |-> selectedOrder],
                  "UpdateStart", <<>>, NoObs)
  /\ UNCHANGED <<envVars, toastTimers, appVars, userDisabled, missedTicks, unhandled>>
  /\ UNCHANGED bannerVars

\* the PATCH succeeded at the backend: handleStatusUpdate goes on to
\* await fetchOrders(true)
PatchOk ==
  /\ upd.phase = "patch"
  /\ Len(requests) < MaxInFlight
  /\ backend' = [backend EXCEPT ![upd.orderId].status = upd.status]
  /\ KeepInstance(IF upd.own THEN AfterPatchOk(Dash, upd.orderId, upd.status) ELSE Dash,
                  intervals,
                  Append(requests, NewRequest("update", upd.own, TRUE)),
                  [upd EXCEPT !.phase = "refresh"],
                  "PatchOk", <<"update">>, NoObs)
  /\ UNCHANGED <<docHidden, timed, toastTimers, appVars, userDisabled, missedTicks, unhandled>>
  /\ UNCHANGED bannerVars

\* the PATCH was rejected: handleStatusUpdate's catch branch
PatchRejected ==
  /\ upd.phase = "patch"
  /\ KeepInstance(IF upd.own THEN StatusUpdateCatch(Dash) ELSE Dash,
                  intervals, StatusUpdateCatchRequests(requests), NoUpdate,
                  "PatchRejected", <<>>,
                  [NoObs EXCEPT !.outcome = StatusUpdateOutcome("rejected")])
  /\ UNCHANGED <<envVars, toastTimers, appVars, userDisabled, missedTicks, unhandled>>
  /\ UNCHANGED bannerVars

\* a GET settles: the tail of fetchOrders. The request handleStatusUpdate
\* awaits lets that call go on.
FetchSettle(i) ==
  /\ i \in 1..Len(requests)
  /\ requests[i].st # "pending"
  /\ LET r == requests[i]
     IN /\ SetDash(IF r.own THEN FetchOrdersSettle(Dash, r) ELSE Dash)
        /\ requests' = FetchOrdersCatch(RemoveAt(requests, i), r)
        /\ upd' = IF r.awaited THEN [upd EXCEPT !.phase = "resume"] ELSE upd
        /\ last' = [act |-> CASE r.st = "ok" -> "FetchOk"
                             [] r.st = "unauthorized" -> "FetchUnauthorized"
                             [] OTHER -> "FetchFailed",
                    started |-> <<>>, settled |-> r.cause,
                    before |-> CASE r.st # "ok" \/ ~r.own -> "none"
                                 [] last.act = "FetchOk" -> last.settled
                                 [] /\ last.act = "UpdateResume" /\ Len(obs.notified) = 1
                                    /\ Shows(orders, obs.notified[1].orderId,
                                             obs.notified[1].status) -> "updated"
                                 [] OTHER -> "none"]
        /\ obs' = NoObs
        /\ unhandled' = (unhandled \/ (~r.awaited /\ FetchOrdersOutcome(r) = "rejected"))
  /\ UNCHANGED <<envVars, timerVars, appVars, userDisabled, sinceAuto, missedTicks>>
  /\ UNCHANGED bannerVars

\* a tracking callback that refreshes nothing
TrackingAssignedRefreshesNothing(hasCallback) == FALSE

\* handleTrackingAssign after its POST succeeded: if (onTrackingAssigned)
\* onTrackingAssigned(), which is fetchOrders(true), not awaited
TrackingAssignedRefreshes(hasCallback) == hasCallback

\* handleTrackingAssign up to its await: the tracking number was entered and
\* the POST is issued (the tracking fields are no part of the model's orders)
TrackingStart ==
  /\ Mounted
  /\ ~loading
  /\ isModalOpen
  /\ selectedOrder # NoOrder
  /\ upd.phase = "idle"
  /\ KeepInstance(Dash, intervals, requests,
                  [phase |-> "assign", orderId |-> selectedOrder.id, status |-> "none",
                   perm |-> permission, own |-> TRUE, sel |-> selectedOrder],
                  "TrackingStart", <<>>, NoObs)
  /\ UNCHANGED <<envVars, toastTimers, appVars, userDisabled, missedTicks, unhandled>>
  /\ UNCHANGED bannerVars

\* the POST succeeded: the form is reset and Dashboard's onTrackingAssigned
\* starts a refresh with the indicator
TrackingOk ==
  /\ upd.phase = "assign"
  /\ IF TrackingAssignedRefreshes(TRUE)
       THEN /\ Len(requests) < MaxInFlight
            /\ KeepInstance(IF upd.own THEN FetchOrdersStart(Dash, TRUE) ELSE Dash,
                            intervals,
                            Append(requests, NewRequest("tracking", upd.own, FALSE)),
                            NoUpdate, "TrackingOk", <<"tracking">>, NoObs)
       ELSE KeepInstance(Dash, intervals, requests, NoUpdate, "TrackingOk", <<>>, NoObs)
  /\ UNCHANGED <<envVars, toastTimers, appVars, userDisabled, missedTicks, unhandled>>
  /\ UNCHANGED bannerVars

\* the POST was rejected: the catch branch logs and alerts
TrackingRejected ==
  /\ upd.phase = "assign"
  /\ KeepInstance(Dash, intervals, requests, NoUpdate, "TrackingRejected", <<>>, NoObs)
  /\ UNCHANGED <<envVars, toastTimers, appVars, userDisabled, missedTicks, unhandled>>
  /\ UNCHANGED bannerVars

\* a handler that tests its selected order the wrong way round
StatusUpdateNotifiesInverted(hasCallback, sel) == hasCallback /\ sel = NoOrder

\* handleStatusUpdate calls onOrderStatusChange if it was given one and its
\* closure holds a selected order
StatusUpdateNotifies(hasCallback, sel) == hasCallback /\ sel # NoOrder

\* handleStatusUpdate after its refresh settled: the selected order is
\* updated, onOrderStatusChange (notifyOrderStatusChange) is called and not
\* awaited, and the handler's promise is fulfilled
UpdateResume ==
  /\ upd.phase = "resume"
  /\ LET d == IF upd.own /\ upd.sel # NoOrder /\ upd.sel.id = upd.orderId
                THEN [Dash EXCEPT !.selectedOrder = [upd.sel EXCEPT !.status = upd.status]]
                ELSE Dash
     IN IF StatusUpdateNotifies(TRUE, upd.sel)
          THEN Notify(upd.perm, upd.orderId, upd.status, d, intervals, requests, NoUpdate,
                      "UpdateResume", <<>>, StatusUpdateOutcome("ok"))
          ELSE /\ KeepInstance(d, intervals, requests, NoUpdate, "UpdateResume", <<>>,
                               [NoObs EXCEPT !.outcome = StatusUpdateOutcome("ok")])
               /\ UNCHANGED <<toasts, toastTimers, permission, prompt, spinning>>
  /\ UNCHANGED <<envVars, currentPage, userDisabled, missedTicks, unhandled>>
  /\ UNCHANGED bannerVars

\* ------------------------------------------------ AppContent, notifications
\* the header's notification test button
TestNotify ==
  /\ userRole \in PrivilegedRoles
  /\ Notify(permission, TestOrderId, "delivered", Dash, intervals, requests, upd,
            "TestNotify", <<>>, "none")
  /\ UNCHANGED <<envVars, currentPage, userDisabled, missedTicks, unhandled>>
  /\ UNCHANGED bannerVars

\* the permission banner's allow button: requestPermission() opens the
\* browser's prompt (the banner offers the button unless permission is denied
\* and is not rendered once it is granted)
BannerRequest ==
  /\ BannerDisplayed
  /\ permission = "default"
  /\ ~prompt.open
  /\ prompt' = [open |-> TRUE, from |-> "banner", orderId |-> 0, status |-> "none"]
  /\ KeepInstance(Dash, intervals, requests, upd, "BannerRequest", <<>>, NoObs)
  /\ UNCHANGED <<envVars, toastTimers, currentPage, permission, toasts, spinning,
                 userDisabled, missedTicks, unhandled>>
  /\ UNCHANGED bannerVars

\* the banner's dismiss buttons: setIsDismissed(true) and
\* onDismiss → setShowPermissionRequest(false)
BannerDismiss ==
  /\ BannerDisplayed
  /\ showPermissionRequest' = FALSE
  /\ dismissed' = TRUE
  /\ Render(Dash, intervals, requests, upd, "BannerDismiss", <<>>, NoObs)
  /\ UNCHANGED <<envVars, toastTimers, appVars, userDisabled, missedTicks, unhandled,
                 userRole, bannerTimers, sinceAuth, hasToken>>

\* the banner effect's timer fires: setShowPermissionRequest(true)
BannerTimerFires(t) ==
  /\ t \in bannerTimers
  /\ t.rem = 0
  /\ bannerTimers' = bannerTimers \ {t}
  /\ showPermissionRequest' = TRUE
  /\ IF showPermissionRequest
       THEN KeepInstance(Dash, intervals, requests, upd, "BannerTimerFires", <<>>, NoObs)
       ELSE Render(Dash, intervals, requests, upd, "BannerTimerFires", <<>>, NoObs)
  /\ UNCHANGED <<envVars, toastTimers, appVars, userDisabled, missedTicks, unhandled,
                 userRole, sinceAuth, dismissed, hasToken>>

\* 1000 ms pass on the banner clock: no banner timer is overdue
BannerTimePasses ==
  /\ \A t \in bannerTimers : t.rem > 0
  /\ bannerTimers # {} \/ (userRole # "none" /\ sinceAuth < BannerDelay)
  /\ bannerTimers' = {[t EXCEPT !.rem = @ - 1] : t \in bannerTimers}
  /\ sinceAuth' = IF userRole = "none" THEN 0
                  ELSE IF sinceAuth < BannerDelay THEN sinceAuth + 1 ELSE BannerDelay
  /\ UNCHANGED <<envVars, timerVars, appVars, dashVars, asyncVars, histVars,
                 userRole, showPermissionRequest, dismissed, hasToken>>

\* logout: authAPI.logout() removes the token, setUser(null); AppContent
\* renders AuthPage, the Dashboard is unmounted, the banner effect's cleanup
\* clears its timer
Logout ==
  /\ userRole # "none"
  /\ userRole' = "none"
  /\ hasToken' = FALSE
  /\ bannerTimers' = BannerEffect("none", permission)
  /\ sinceAuth' = 0
  /\ KeepInstance(NoDash, EffectCleanup(intervals, intervalRef), Disown(requests),
                  [upd EXCEPT !.own = FALSE], "Logout", <<>>, NoObs)
  /\ UNCHANGED <<envVars, toastTimers, appVars, userDisabled, missedTicks, unhandled,
                 showPermissionRequest, dismissed>>

\* login: authAPI.login stores the token of the response,
\* setUser(response.user); AppContent renders its authenticated branch, which
\* mounts a Dashboard on the dashboard page, and the banner effect runs again
Login(role) ==
  /\ userRole = "none"
  /\ role \in LoginRoles
  /\ userRole' = role
  /\ hasToken' = TRUE
  /\ bannerTimers' = BannerEffect(role, permission)
  /\ sinceAuth' = 0
  /\ IF currentPage = "dashboard"
       THEN Remount(Dash, intervals, requests, upd, "Login", <<>>, NoObs)
       ELSE KeepInstance(Dash, intervals, requests, upd, "Login", <<>>, NoObs)
  /\ userDisabled' = FALSE
  /\ UNCHANGED <<envVars, toastTimers, appVars, missedTicks, unhandled,
                 showPermissionRequest, dismissed>>

\* a requestPermission that drops the browser's answer
RequestPermissionSetsDefault(result) == "default"

\* requestPermission: setPermission(result) with the value
\* Notification.requestPermission() resolved to
RequestPermissionSets(result) == result

\* the user answers the browser's permission prompt: requestPermission() sets
\* the permission state and the waiting call goes on
PromptAnswer(result) ==
  /\ prompt.open
  /\ result \in {"granted", "denied", "default"}
  /\ prompt' = NoPrompt
  /\ permission' = RequestPermissionSets(result)
  /\ LET next == IF prompt.from = "notify"
                   THEN AfterPermissionRequest("default", result)
                   ELSE "none"
         o == IF prompt.from = "notify"
                THEN [NoObs EXCEPT !.toasted = (next = "returned")]
                ELSE NoObs
     IN /\ spinning' = (spinning \/ next = "spin")
        /\ IF next = "returned"
             THEN /\ Len(toasts) < MaxToasts
                  /\ Cardinality(toastTimers) < MaxToasts
                  /\ \E id \in ToastIdChoices(toasts, toastTimers) :
                       LET r == ShowToast(toasts, toastTimers,
                                          StatusInfo(prompt.status).color,
                                          StatusInfo(prompt.status).title,
                                          StatusToastTimeout, id)
                       IN /\ toasts' = r.toasts
                          /\ toastTimers' = r.timers
             ELSE UNCHANGED <<toasts, toastTimers>>
        /\ IF next = "returned" \/ result # permission
             THEN Render(Dash, intervals, requests, upd, "PromptAnswer", <<>>, o)
             ELSE KeepInstance(Dash, intervals, requests, upd, "PromptAnswer", <<>>, o)
  /\ UNCHANGED <<envVars, currentPage, userDisabled, missedTicks, unhandled>>
  /\ bannerTimers' = IF permission' # permission
                       THEN BannerEffect(userRole, permission')
                       ELSE bannerTimers
  /\ UNCHANGED <<userRole, showPermissionRequest, sinceAuth, dismissed, hasToken>>

\* the expiry timer of a toast fires: removeToast(id)
ToastExpire(t) ==
  /\ t \in toastTimers
  /\ Due(t)
  /\ toastTimers' = toastTimers \ {t}
  /\ toasts' = RemoveToastById(toasts, t.id)
  /\ Render(Dash, intervals, requests, upd, "ToastExpire", <<>>,
            [NoObs EXCEPT !.removed = {toasts[i].id : i \in 1..Len(toasts)}
                                       \ {toasts'[i].id : i \in 1..Len(toasts')}])
  /\ UNCHANGED <<envVars, currentPage, permission, prompt, spinning,
                 userDisabled, missedTicks, unhandled>>
  /\ UNCHANGED bannerVars

\* the close button of a toast: removeToast(id); the expiry timer stays pending
RemoveToast(i) ==
  /\ i \in 1..Len(toasts)
  /\ toasts' = RemoveToastById(toasts, toasts[i].id)
  /\ Render(Dash, intervals, requests, upd, "RemoveToast", <<>>,
            [NoObs EXCEPT !.removed = {toasts[i].id}])
  /\ UNCHANGED <<envVars, toastTimers, currentPage, permission, prompt, spinning,
                 userDisabled, missedTicks, unhandled>>
  /\ UNCHANGED bannerVars

\* showToast called by a client of the hook with the given timeout
CallShowToast(tmo) ==
  /\ tmo \in ToastTimeouts
  /\ Len(toasts) < MaxApiToasts
  /\ Cardinality(toastTimers) < MaxApiToasts
  /\ \E id \in ToastIdChoices(toasts, toastTimers) :
       LET r == ShowToast(toasts, toastTimers, "info", "toast", tmo, id)
       IN /\ toasts' = r.toasts
          /\ toastTimers' = r.timers
  /\ Render(Dash, intervals, requests, upd, "CallShowToast", <<>>,
            [NoObs EXCEPT !.toasted = TRUE])
  /\ UNCHANGED <<envVars, currentPage, permission, prompt, spinning,
                 userDisabled, missedTicks, unhandled>>
  /\ UNCHANGED bannerVars

\* removeToast called by a client of the hook with any id; filter returns a
\* new array, so the state changes and AppContent re-renders
CallRemoveToast(id) ==
  /\ id \in 1..(MaxApiToasts + 1)
  /\ toasts' = RemoveToastById(toasts, id)
  /\ Render(Dash, intervals, requests, upd, "CallRemoveToast", <<>>,
            [NoObs EXCEPT !.removed = {toasts[i].id : i \in 1..Len(toasts)}
                                       \ {toasts'[i].id : i \in 1..Len(toasts')}])
  /\ UNCHANGED <<envVars, toastTimers, currentPage, permission, prompt, spinning,
                 userDisabled, missedTicks, unhandled>>
  /\ UNCHANGED bannerVars

\* notifyOrderStatusChange called by a client of the hook with any order id
\* and status
CallNotify(orderId, status) ==
  /\ orderId \in {1, TestOrderId}
  /\ status \in NotifyStatuses
  /\ Notify(permission, orderId, status, Dash, intervals, requests, upd,
            "CallNotify", <<>>, "none")
  /\ UNCHANGED <<envVars, currentPage, userDisabled, missedTicks, unhandled>>
  /\ UNCHANGED bannerVars

\* clearToasts: setToasts([]); pending expiry timers stay pending
ClearToasts ==
  /\ toasts' = <<>>
  /\ IF toasts = <<>>
       THEN KeepInstance(Dash, intervals, requests, upd, "ClearToasts", <<>>, NoObs)
       ELSE Render(Dash, intervals, requests, upd, "ClearToasts", <<>>,
                   [NoObs EXCEPT !.removed = {toasts[i].id : i \in 1..Len(toasts)}])
  /\ UNCHANGED <<envVars, toastTimers, currentPage, permission, prompt, spinning,
                 userDisabled, missedTicks, unhandled>>
  /\ UNCHANGED bannerVars

\* setCurrentPage: leaving the dashboard page unmounts the Dashboard,
\* entering it mounts a new one
Navigate(p) ==
  /\ p \in {"dashboard", "new-order"}
  /\ p # currentPage
  /\ currentPage' = p
  /\ IF p = "dashboard"
       THEN /\ Remount(Dash, intervals, requests, upd, "Navigate", <<>>, NoObs)
            /\ userDisabled' = FALSE
       ELSE /\ KeepInstance(NoDash, EffectCleanup(intervals, intervalRef),
                            Disown(requests), [upd EXCEPT !.own = FALSE],
                            "Navigate", <<>>, NoObs)
            /\ userDisabled' = userDisabled
  /\ UNCHANGED <<envVars, toastTimers, permission, toasts, prompt, spinning, missedTicks, unhandled>>
  /\ UNCHANGED bannerVars

\* ------------------------------------------------------------------ time
\* one time unit passes: no timer is overdue, and every backend call in flight
\* has been answered
AdvanceTime ==
  /\ timed
  /\ requests = <<>>
  /\ \A t \in intervals : t.rem > 0
  /\ \A t \in toastTimers : t.rem > 0
  /\ intervals' = {[t EXCEPT !.rem = @ - 1] : t \in intervals}
  /\ toastTimers' = {[t EXCEPT !.rem = @ - 1] : t \in toastTimers}
  /\ sinceAuto' = IF sinceAuto < RefreshPeriod THEN sinceAuto + 1 ELSE RefreshPeriod
  /\ last' = [act |-> "AdvanceTime", started |-> <<>>, settled |-> "none", before |-> "none"]
  /\ obs' = NoObs
  /\ UNCHANGED <<envVars, appVars, dashVars, asyncVars, userDisabled, missedTicks, unhandled>>
  /\ UNCHANGED bannerVars

\* --------------------------------------------------------- specifications
\* the order data: refreshes, status updates and the notifications they raise
Next ==
  \/ \E t \in intervals : Tick(t)
  \/ ManualRefresh
  \/ \E i \in 1..MaxInFlight : ServerGet(i)
  \/ \E i \in 1..Len(backend), s \in BackendStatuses : BackendChange(i, s)
  \/ \E i \in 1..Len(orders) : OrderClick(i)
  \/ CloseModal
  \/ \E s \in PickedStatuses : UpdateStart(s)
  \/ PatchOk
  \/ PatchRejected
  \/ \E i \in 1..MaxInFlight : FetchSettle(i)
  \/ UpdateResume
  \/ \E t \in toastTimers : ToastExpire(t)

Spec == Init /\ [][Next]_vars

\* a status update among several orders, other clients changing the rest
InitFrame ==
  /\ InitCommon
  /\ timed = FALSE
  /\ docHidden = FALSE
  /\ backend \in FrameOrderLists
  /\ permission = "granted"
  /\ InitBanner("admin")

NextFrame ==
  \/ \E i \in 1..MaxInFlight : ServerGet(i)
  \/ \E i \in 1..Len(backend), s \in BackendStatuses : BackendChange(i, s)
  \/ \E i \in 1..Len(orders) : OrderClick(i)
  \/ CloseModal
  \/ \E s \in PickedStatuses : UpdateStart(s)
  \/ PatchOk
  \/ PatchRejected
  \/ \E i \in 1..MaxInFlight : FetchSettle(i)
  \/ UpdateResume
  \/ \E t \in toastTimers : ToastExpire(t)

SpecFrame == InitFrame /\ [][NextFrame]_vars

\* status updates racing with the Dashboard's own refreshes; the backend
\* changes by these updates only, so a response that shows another status
\* than the backend holds was given before the PATCH
NextRace ==
  \/ \E t \in intervals : Tick(t)
  \/ ManualRefresh
  \/ ToggleAutoRefresh
  \/ \E i \in 1..MaxInFlight : ServerGet(i)
  \/ \E i \in 1..Len(orders) : OrderClick(i)
  \/ CloseModal
  \/ \E s \in PickedStatuses : UpdateStart(s)
  \/ PatchOk
  \/ PatchRejected
  \/ \E i \in 1..MaxInFlight : FetchSettle(i)
  \/ UpdateResume
  \/ \E t \in toastTimers : ToastExpire(t)

SpecRace == Init /\ [][NextRace]_vars

\* The page right after the Dashboard was mounted, the backend holding any
\* list of NumFrameOrders orders over ServerStatuses.
InitStats ==
  /\ InitCommon
  /\ timed = FALSE
  /\ docHidden = FALSE
  /\ backend \in StatsOrderLists
  /\ permission = "granted"
  /\ InitBanner("admin")

\* refreshes of the Dashboard against such a backend
NextStats ==
  \/ ManualRefresh
  \/ \E t \in intervals : Tick(t)
  \/ \E i \in 1..MaxInFlight : ServerGet(i)
  \/ \E i \in 1..MaxInFlight : FetchSettle(i)

SpecStats == InitStats /\ [][NextStats]_vars

\* the detail modal's tracking-number form over the same snapshots
NextTracking ==
  \/ \E i \in 1..MaxInFlight : ServerGet(i)
  \/ \E i \in 1..Len(backend), s \in BackendStatuses : BackendChange(i, s)
  \/ \E i \in 1..Len(orders) : OrderClick(i)
  \/ CloseModal
  \/ \E i \in 1..MaxInFlight : FetchSettle(i)
  \/ TrackingStart
  \/ TrackingOk
  \/ TrackingRejected
  \/ \E p \in {"dashboard", "new-order"} : Navigate(p)

SpecTracking == InitFrame /\ [][NextTracking]_vars

\* the scheduler in real time: the interval, visibility, the toggle, and the
\* re-renders of AppContent that toasts cause
NextSched ==
  \/ AdvanceTime
  \/ \E t \in intervals : Tick(t)
  \/ VisibilityChange
  \/ ToggleAutoRefresh
  \/ ManualRefresh
  \/ \E i \in 1..MaxInFlight : ServerGet(i)
  \/ \E i \in 1..MaxInFlight : FetchSettle(i)
  \/ TestNotify
  \/ \E t \in toastTimers : ToastExpire(t)
  \/ \E i \in 1..MaxToasts : RemoveToast(i)
  \/ \E p \in {"dashboard", "new-order"} : Navigate(p)

SpecSched == InitSched /\ [][NextSched]_vars

\* the scheduler in real time with every kind of failure of the GET,
\* 401 and 403 included
NextRetry ==
  \/ AdvanceTime
  \/ \E t \in intervals : Tick(t)
  \/ VisibilityChange
  \/ ManualRefresh
  \/ \E i \in 1..MaxInFlight : ServerGet(i)
  \/ \E i \in 1..MaxInFlight : ServerGetUnauthorized(i)
  \/ \E i \in 1..MaxInFlight : FetchSettle(i)
  \/ TestNotify
  \/ \E t \in toastTimers : ToastExpire(t)
  \/ \E p \in {"dashboard", "new-order"} : Navigate(p)

SpecRetry == InitSched /\ [][NextRetry]_vars

\* permission negotiation: the banner, the browser's prompt and the
\* notifications of the test button and of status updates, whatever the
\* browser reported as permission when the page was loaded
InitNotify ==
  /\ InitCommon
  /\ timed = FALSE
  /\ docHidden = FALSE
  /\ backend = [i \in OrderIds |-> [id |-> i, status |-> "received"]]
  /\ permission \in {"default", "granted", "denied"}
  /\ InitBanner("admin")

NextNotify ==
  \/ \E i \in 1..MaxInFlight : ServerGet(i)
  \/ \E i \in 1..MaxInFlight : FetchSettle(i)
  \/ \E i \in 1..Len(orders) : OrderClick(i)
  \/ \E s \in PickedStatuses : UpdateStart(s)
  \/ PatchOk
  \/ UpdateResume
  \/ TestNotify
  \/ BannerTimePasses
  \/ \E t \in bannerTimers : BannerTimerFires(t)
  \/ BannerRequest
  \/ \E result \in {"granted", "denied", "default"} : PromptAnswer(result)
  \/ \E t \in toastTimers : ToastExpire(t)
  \/ \E i \in 1..MaxToasts : RemoveToast(i)

SpecNotify == InitNotify /\ [][NextNotify]_vars

\* the permission banner across logins of users of different roles, delays of
\* the banner effect in real time, the other delays abstracted
InitBannerPage ==
  /\ InitCommon
  /\ timed = FALSE
  /\ docHidden = FALSE
  /\ backend = [i \in OrderIds |-> [id |-> i, status |-> "received"]]
  /\ permission \in {"default", "granted", "denied"}
  /\ \E role \in LoginRoles : InitBanner(role)

NextBanner ==
  \/ \E i \in 1..MaxInFlight : ServerGet(i)
  \/ \E i \in 1..MaxInFlight : FetchSettle(i)
  \/ BannerTimePasses
  \/ \E t \in bannerTimers : BannerTimerFires(t)
  \/ BannerRequest
  \/ BannerDismiss
  \/ \E result \in {"granted", "denied", "default"} : PromptAnswer(result)
  \/ Logout
  \/ \E role \in LoginRoles : Login(role)

SpecBanner == InitBannerPage /\ [][NextBanner]_vars

\* the session: refreshes answered with 401 or 403 beside logout and login
NextAuth ==
  \/ ManualRefresh
  \/ \E t \in intervals : Tick(t)
  \/ \E i \in 1..MaxInFlight : ServerGet(i)
  \/ \E i \in 1..MaxInFlight : ServerGetUnauthorized(i)
  \/ \E i \in 1..MaxInFlight : FetchSettle(i)
  \/ Logout
  \/ \E role \in LoginRoles : Login(role)

SpecAuth == InitNotify /\ [][NextAuth]_vars

\* notifyOrderStatusChange called with any order id and status, under any
\* permission
NextNotifyApi ==
  \/ \E i \in 1..MaxInFlight : ServerGet(i)
  \/ \E i \in 1..MaxInFlight : FetchSettle(i)
  \/ \E orderId \in {1, TestOrderId}, status \in NotifyStatuses : CallNotify(orderId, status)
  \/ \E result \in {"granted", "denied", "default"} : PromptAnswer(result)
  \/ \E t \in toastTimers : ToastExpire(t)

SpecNotifyApi == InitNotify /\ [][NextNotifyApi]_vars

\* the toast queue in real time: showToast with any timeout, removeToast,
\* clearToasts and the expiry timers, beside the polling Dashboard
InitToast ==
  /\ InitCommon
  /\ timed = TRUE
  /\ docHidden = FALSE
  /\ backend = [i \in OrderIds |-> [id |-> i, status |-> "received"]]
  /\ permission = "granted"
  /\ InitBanner("admin")

NextToast ==
  \/ AdvanceTime
  \/ \E t \in intervals : Tick(t)
  \/ \E i \in 1..MaxInFlight : ServerGet(i)
  \/ \E i \in 1..MaxInFlight : FetchSettle(i)
  \/ \E tmo \in ToastTimeouts : CallShowToast(tmo)
  \/ \E t \in toastTimers : ToastExpire(t)
  \/ \E i \in 1..MaxApiToasts : RemoveToast(i)
  \/ \E id \in 1..(MaxApiToasts + 1) : CallRemoveToast(id)
  \/ ClearToasts

SpecToast == InitToast /\ [][NextToast]_vars

\* ================================================================ claims
\* C1: while the page is hidden, no tick of the interval timer starts a
\* refresh, even with auto-refresh enabled.
C1_NoTickRefreshWhileHidden ==
  (last.act = "Tick" /\ docHidden) => last.started = <<>>

\* C2: with auto-refresh enabled, a hidden-to-visible transition starts exactly
\* one refresh, however many ticks were missed while hidden, and a
\* visible-to-hidden transition starts none.
C2_VisibleTransitionRefreshesOnce ==
  (last.act = "VisibilityChange" /\ Mounted /\ isAutoRefreshEnabled) =>
    /\ ~docHidden => last.started = <<"visible">>
    /\ docHidden => last.started = <<>>

\* C2 witness: the page was hidden for three or more periods and became
\* visible with auto-refresh enabled; one refresh was started.
C2_Witness ==
  /\ last.act = "VisibilityChange"
  /\ Mounted /\ isAutoRefreshEnabled /\ ~docHidden
  /\ missedTicks >= 3
  /\ last.started = <<"visible">>
  /\ Len(requests) = 1

\* C3: after the operator switched auto-refresh off, no tick starts a refresh
\* until the operator switches it on again.
C3_NoTickRefreshAfterStop ==
  (last.act = "Tick" /\ last.started # <<>>) => ~userDisabled

\* C4: at most one interval timer is live, and a live one belongs to the
\* mounted Dashboard with auto-refresh enabled.
C4_AtMostOneInterval ==
  /\ Cardinality(intervals) <= 1
  /\ \A t \in intervals : Mounted /\ isAutoRefreshEnabled /\ t.h = intervalRef

\* C4 witness: auto-refresh was switched off and on again, one timer is live.
C4_Witness ==
  /\ last.act = "ToggleAutoRefresh"
  /\ isAutoRefreshEnabled
  /\ Cardinality(intervals) = 1

\* C5: a refresh started by the timer or by mounting follows the previous such
\* refresh by at least RefreshPeriod and is never started while the page is hidden.
C5_AutoRefreshOncePerWindow ==
  [][ (last'.started # <<>> /\ last'.started[Len(last'.started)] \in {"tick", "remount"}
       /\ ~(\E i \in 1..MaxInFlight : ServerGet(i)))
      => (~docHidden /\ sinceAuto >= RefreshPeriod) ]_vars

\* C6: a refresh that fails leaves the order list and the counts as they were.
C6_FailedRefreshKeepsSnapshot ==
  [][ \A i \in 1..MaxInFlight :
        (FetchSettle(i) /\ requests[i].st = "error")
          => (orders' = orders /\ stats' = stats) ]_vars

\* C6 witness: a refresh failed while a non-empty snapshot was held.
C6_Witness ==
  /\ last.act = "FetchFailed"
  /\ orders # <<>>
  /\ stats.total = NumOrders

\* C7: a failed refresh leaves the interval timer running with its phase
\* untouched and lets no error escape; while the Dashboard is mounted with
\* auto-refresh enabled its timer is live and due within RefreshPeriod, and
\* while the page is visible a tick of it starts a refresh.
C7_FailedRefreshKeepsTimer ==
  /\ [](~unhandled)
  /\ []((Mounted /\ ~docHidden) => TickRefreshes(visibilityRef))
  /\ []((Mounted /\ isAutoRefreshEnabled) =>
          \E t \in intervals : t.h = intervalRef /\ t.rem \in 0..RefreshPeriod)
  /\ [][ \A i \in 1..MaxInFlight :
           (FetchSettle(i) /\ requests[i].st = "error")
             => (intervals' = intervals /\ intervalRef' = intervalRef
                 /\ isAutoRefreshEnabled' = isAutoRefreshEnabled) ]_vars

\* C7 witness: the refresh a tick started failed; the timer is live and has
\* its full period ahead.
C7_Witness ==
  /\ last.act = "FetchFailed"
  /\ last.settled = "tick"
  /\ Mounted /\ isAutoRefreshEnabled /\ ~docHidden
  /\ \E t \in intervals : t.h = intervalRef /\ t.rem = RefreshPeriod

\* C8: the counts always equal the counts computed from the order list held
\* in the same state.
C8_StatsMatchOrders == stats = ComputeStats(orders)

\* C8 witness: a refresh replaced a list by one with a delivered order; the
\* counts moved with it.
C8_Witness ==
  /\ last.act = "FetchOk"
  /\ last.settled \in {"tick", "manual", "update"}
  /\ Len(orders) = NumOrders
  /\ stats.total = NumOrders
  /\ stats.delivered >= 1

C10_RejectedUpdateKeepsSnapshot ==
  [][ (PatchRejected \/ \E s \in PickedStatuses : UpdateStart(s))
        => (orders' = orders /\ stats' = stats /\ requests' = requests) ]_vars

\* C10 witness: an update was rejected while a non-empty snapshot was held.
C10_Witness ==
  /\ last.act = "PatchRejected"
  /\ orders # <<>>
  /\ stats.total = NumOrders

\* a step of the backend: the program's handlers did not run
EnvStep ==
  \/ \E i \in 1..MaxInFlight : ServerGet(i)
  \/ \E i \in 1..Len(backend), st \in BackendStatuses : BackendChange(i, st)

\* C11: when the backend rejects the PATCH, the promise handleStatusUpdate
\* returned to its caller is rejected: the caller observes a failure.
C11_RejectionReachesCaller ==
  last.act = "PatchRejected" => obs.outcome = "rejected"

\* C12: an update whose PATCH succeeded ends in one call of
\* notifyOrderStatusChange with the order id and the new status, and only such
\* an update calls it; a rejected update ends without a call.
C12_OneNotifyPerSuccessfulUpdate ==
  [][ /\ UpdateResume =>
           obs'.notified = <<[orderId |-> upd.orderId, status |-> upd.status]>>
      /\ (obs'.notified # <<>> /\ ~EnvStep) => (UpdateResume \/ TestNotify)
      /\ PatchRejected => (obs'.notified = <<>> /\ upd' = NoUpdate)
      /\ (upd.phase = "patch" /\ upd'.phase # "patch") => (PatchOk \/ PatchRejected)
      /\ PatchOk => upd'.phase = "refresh"
      /\ (upd.phase = "refresh" /\ upd'.phase # "refresh") => upd'.phase = "resume"
      /\ (upd.phase = "resume" /\ upd'.phase # "resume") => (UpdateResume /\ upd' = NoUpdate)
    ]_vars

\* C12 witness: an update succeeded and its handler called the notifier with
\* the order it updated.
C12_Witness ==
  /\ last.act = "UpdateResume"
  /\ obs.outcome = "fulfilled"
  /\ Len(obs.notified) = 1
  /\ obs.notified[1].orderId \in OrderIds
  /\ obs.notified[1].status \in PickedStatuses

\* a mounted Dashboard's fetchOrders settles the GET its handleStatusUpdate awaits
UpdateRefreshSettles(i) ==
  /\ FetchSettle(i)
  /\ requests[i].awaited
  /\ requests[i].own

C14_ManualRefreshAlwaysStarts ==
  /\ [](last.act = "ManualRefresh" =>
          (last.started = <<"manual">> /\ isRefreshing
           /\ \E i \in 1..Len(requests) : requests[i].cause = "manual"))
  /\ [][ManualRefresh => intervals' = intervals]_vars

\* C14 witness: a manual refresh was started while the page was hidden,
\* auto-refresh was off and no timer was live.
C14_Witness ==
  /\ last.act = "ManualRefresh"
  /\ last.started = <<"manual">>
  /\ ~visibilityRef
  /\ ~isAutoRefreshEnabled
  /\ intervals = {}

\* C14 witness of the other phase: started with the timer due at once.
C14_WitnessTimerDue ==
  /\ last.act = "ManualRefresh"
  /\ last.started = <<"manual">>
  /\ \E t \in intervals : t.h = intervalRef /\ t.rem = 0

\* a step in which notifyOrderStatusChange was called
NotifyCalled == TestNotify \/ UpdateResume

\* C15: a showBrowserNotification call that found permission default and whose
\* permission request the user answered with granted delivers exactly one OS
\* notification and returns.
C15_GrantAfterDefaultDeliversOnce ==
  [][ (prompt.open /\ prompt.from = "notify" /\ PromptAnswer("granted"))
        => (Len(obs'.os) = 1 /\ spinning' = spinning) ]_vars

\* C16: a notifyOrderStatusChange call made while the permission state is
\* granted delivers exactly the OS notification it asked for, calls no
\* requestPermission() and opens no prompt.
C16_GrantedStateDeliversOnce ==
  [][ (NotifyCalled /\ permission = "granted")
        => /\ obs'.os = <<StatusNotification(obs'.notified[1].orderId,
                                              obs'.notified[1].status)>>
           /\ ~obs'.asked
           /\ ~prompt'.open
           /\ spinning' = spinning ]_vars

\* the call delivered no OS notification, opened no prompt, raised no error
\* and returned
SilentNoOp ==
  /\ obs'.os = <<>>
  /\ prompt' = prompt
  /\ unhandled' = unhandled
  /\ spinning' = spinning
  /\ obs'.toasted

C17_WitnessRefused ==
  /\ last.act = "PromptAnswer"
  /\ permission = "denied"
  /\ obs.toasted
  /\ obs.os = <<>>

\* C18: every notifyOrderStatusChange call shows its toast: at once, or, when
\* the call opened the permission prompt, as soon as the prompt is answered,
\* whatever the answer is.
C18_ToastWhateverTheOsOutcome ==
  [][ /\ NotifyCalled => (obs'.toasted \/ (prompt'.open /\ prompt'.from = "notify"))
      /\ \A result \in {"granted", "denied", "default"} :
           (prompt.open /\ prompt.from = "notify" /\ PromptAnswer(result))
             => obs'.toasted ]_vars

\* the ids of the toasts of a sequence
ToastIds(ts) == {ts[i].id : i \in 1..Len(ts)}

\* C19: showToast with a timeout of zero or less starts no expiry timer, and
\* no expiry timer ever fires for a toast created with such a timeout.
C19_NonPositiveTimeoutPersists ==
  [][ \A tmo \in ToastTimeouts :
        (tmo <= 0 /\ CallShowToast(tmo)) => toastTimers' = toastTimers ]_vars

\* C20: showToast with a timeout t > 0 puts the toast into the active sequence
\* and starts its timer with delay t; a toast with a timer is in the sequence
\* no longer than its timer is pending; the timer fires when its delay has
\* elapsed, and after it fired the toast is not in the sequence.
C20_ToastLivesUntilItsTimer ==
  /\ [][ \A tmo \in ToastTimeouts :
           (tmo > 0 /\ CallShowToast(tmo))
             => /\ Len(toasts') = Len(toasts) + 1
                /\ toasts' = Append(toasts, toasts'[Len(toasts')])
                /\ toasts'[Len(toasts')].timeout = tmo
                /\ toastTimers' = toastTimers
                                    \cup {[id |-> toasts'[Len(toasts')].id, rem |-> tmo,
                                           tmo |-> tmo]} ]_vars
  /\ [][ \A t \in toastTimers :
           ToastExpire(t) => (t.rem = 0 /\ t.id \notin ToastIds(toasts')
                              /\ t \notin toastTimers') ]_vars
  /\ [][ AdvanceTime => \A t \in toastTimers :
                          t.rem > 0 /\ [t EXCEPT !.rem = @ - 1] \in toastTimers' ]_vars
  /\ [](\A i \in 1..Len(toasts) :
          toasts[i].timeout > 0
            => \E t \in toastTimers : t.id = toasts[i].id /\ t.rem <= toasts[i].timeout)

\* C20 witness: the expiry timer of a toast fired and took the toast, which
\* was still shown, out of the sequence.
C20_Witness ==
  /\ last.act = "ToastExpire"
  /\ obs.removed # {}
  /\ toasts = <<>>

\* C20 witness of the other end: a toast created with 10000 ms is shown, its
\* timer pending with the full delay.
C20_WitnessShown ==
  /\ last.act = "CallShowToast"
  /\ toasts # <<>>
  /\ toasts[1].timeout = 2
  /\ [id |-> toasts[1].id, rem |-> 2, tmo |-> 2] \in toastTimers

\* C21: no two toasts of the active sequence carry the same id.
C21_ToastIdsDistinct ==
  \A i, j \in 1..Len(toasts) : i # j => toasts[i].id # toasts[j].id

\* C22: removeToast(id) leaves no toast with that id in the sequence and keeps
\* every other toast in its place; with an id no toast carries, and so on a
\* second call with the same id, the sequence stays as it is; no error is
\* raised and no timer is touched.
C22_RemoveToastIdempotent ==
  /\ [][ \A id \in 1..(MaxApiToasts + 1) :
           CallRemoveToast(id)
             => /\ id \notin ToastIds(toasts')
                /\ \A i \in 1..Len(toasts) :
                     toasts[i].id # id
                       => \E j \in 1..Len(toasts') :
                            /\ toasts'[j] = toasts[i]
                            /\ j = Cardinality({k \in 1..i : toasts[k].id # id})
                /\ Len(toasts') = Cardinality({k \in 1..Len(toasts) : toasts[k].id # id})
                /\ (id \notin ToastIds(toasts) => toasts' = toasts)
                /\ unhandled' = unhandled
                /\ toastTimers' = toastTimers ]_vars
  /\ [](\A id \in 1..(MaxApiToasts + 1) :
          RemoveToastById(RemoveToastById(toasts, id), id) = RemoveToastById(toasts, id))

\* C22 witness: removeToast was called with an id no toast of a non-empty
\* sequence carries.
C22_Witness ==
  /\ last.act = "CallRemoveToast"
  /\ obs.removed = {}
  /\ toasts # <<>>

\* C22 witness of the first case: the call took a toast out and left another.
C22_WitnessRemoved ==
  /\ last.act = "CallRemoveToast"
  /\ obs.removed # {}
  /\ toasts # <<>>

\* the statuses of this model that the statusMessages table does not hold
UnlistedStatuses == NotifyStatuses \ TableStatuses

\* C23: for a status the table does not hold, notifyOrderStatusChange raises
\* no error, and the OS notification and the toast it produces carry the
\* default title, the toast the severity info.
C23_UnlistedStatusUsesDefault ==
  [][ \A orderId \in {1, TestOrderId}, status \in UnlistedStatuses :
        CallNotify(orderId, status)
          => /\ unhandled' = unhandled
             /\ obs'.os # <<>> => obs'.os[1].title = "status changed"
             /\ obs'.toasted => /\ toasts'[Len(toasts')].title = "status changed"
                                /\ toasts'[Len(toasts')].type = "info" ]_vars

\* C24: the OS notification notifyOrderStatusChange delivers for order id o
\* and status s has tag order-o and asks for interaction exactly when s is
\* the delivered status.
C24_TagAndRequireInteraction ==
  [][ /\ \A orderId \in {1, TestOrderId}, status \in NotifyStatuses :
           (CallNotify(orderId, status) /\ permission = "granted")
             => /\ Len(obs'.os) = 1
                /\ obs'.os[1].tag = <<"order-", orderId>>
                /\ obs'.os[1].requireInteraction = (status = "delivered")
      /\ \A orderId \in {1, TestOrderId}, status \in NotifyStatuses :
           CallNotify(orderId, status)
             => \A i \in 1..Len(obs'.os) :
                  /\ obs'.os[i].tag = <<"order-", orderId>>
                  /\ obs'.os[i].requireInteraction = (status = "delivered") ]_vars

\* C24 witness: a notification for the delivered status was delivered.
C24_Witness ==
  /\ last.act = "CallNotify"
  /\ obs.notified = <<[orderId |-> 1, status |-> "delivered"]>>
  /\ Len(obs.os) = 1
  /\ obs.os[1].requireInteraction

\* C24 witness of the other side: one for a status that is not the delivered one.
C24_WitnessNotDelivered ==
  /\ last.act = "CallNotify"
  /\ obs.notified = <<[orderId |-> TestOrderId, status |-> "in_transit"]>>
  /\ Len(obs.os) = 1
  /\ ~obs.os[1].requireInteraction

\* C25: the page starts with the permission the browser reports and with no
\* prompt open; the permission state changes only when the prompt is
\* answered, to the answer; once it is granted or denied it stays away from
\* default.
C25_PermissionChangesOnlyByAnswer ==
  /\ ~prompt.open
  /\ [][ /\ permission' # permission
             => (prompt.open /\ \E result \in {"granted", "denied", "default"} :
                                  PromptAnswer(result))
         /\ \A result \in {"granted", "denied", "default"} :
              PromptAnswer(result) => permission' = result
         /\ permission # "default" => permission' # "default" ]_vars

\* C25 witness: the answer to the banner's prompt moved the permission to
\* granted.
C25_Witness ==
  /\ permission = "granted"
  /\ last.act = "PromptAnswer"
  /\ ~spinning

\* C26: while the banner is displayed the authenticated user has a privileged
\* role and was authenticated at least 2000 ms ago.
C26_BannerOnlyForPrivilegedAfterDelay ==
  BannerDisplayed => (userRole \in PrivilegedRoles /\ sinceAuth >= BannerDelay)

\* C27: while the banner is displayed the permission is default.
C27_BannerOnlyWhileDefault ==
  BannerDisplayed => permission = "default"

\* C27 as the code has it: while the banner is displayed the permission is
\* default or denied, never granted, and the allow button works only while it
\* is default; the flag is set only by the timer of a privileged user's login
\* under permission default.
C27_BannerNeverWhileGranted ==
  /\ [](BannerDisplayed => permission \in {"default", "denied"})
  /\ [][BannerRequest => (BannerDisplayed /\ permission = "default")]_vars
  /\ [][(~showPermissionRequest /\ showPermissionRequest')
          => (permission = "default" /\ userRole \in PrivilegedRoles)]_vars

\* C27 witness: the banner is displayed as a blocked notice after the prompt
\* was answered with denied.
C27_Witness ==
  /\ BannerDisplayed
  /\ permission = "denied"
  /\ last.act = "PromptAnswer"

\* C28: once the banner was dismissed it is not displayed again during the
\* page load.
C28_DismissedBannerStaysAway ==
  dismissed => ~BannerDisplayed

\* the number of refreshes in flight that a tracking assignment started
TrackingRequests(reqs) == Cardinality({i \in 1..Len(reqs) : reqs[i].cause = "tracking"})

\* C29: a successful tracking assignment leaves the order list and the counts
\* as they are and issues exactly one GET; a rejected one, and the start of
\* one, leaves the list, the counts and the requests in flight as they are;
\* nothing else issues a GET on behalf of a tracking assignment.
C29_TrackingRefreshesOnce ==
  [][ /\ TrackingOk
         => /\ orders' = orders /\ stats' = stats
            /\ Len(requests') = Len(requests) + 1
            /\ SubSeq(requests', 1, Len(requests)) = requests
            /\ requests'[Len(requests')].st = "pending"
            /\ requests'[Len(requests')].cause = "tracking"
      /\ (TrackingRejected \/ TrackingStart)
         => (orders' = orders /\ stats' = stats /\ requests' = requests)
      /\ TrackingRequests(requests') > TrackingRequests(requests) => TrackingOk ]_vars

\* C29 witness: a tracking assignment succeeded while a non-empty snapshot
\* was held and its refresh is in flight.
C29_Witness ==
  /\ last.act = "TrackingOk"
  /\ last.started = <<"tracking">>
  /\ orders # <<>>
  /\ isRefreshing
  /\ TrackingRequests(requests) = 1

\* C29 witness of the other case: a tracking assignment was rejected.
C29_WitnessRejected ==
  /\ last.act = "TrackingRejected"
  /\ orders # <<>>
  /\ TrackingRequests(requests) = 0

\* the settling of a failed GET, 401 and 403 included, removes that request,
\* issues none and touches no timer
FailedSettleIssuesNothing ==
  [][ \A i \in 1..MaxInFlight :
        (i <= Len(requests) /\ requests[i].st \in {"error", "unauthorized"}
         /\ FetchSettle(i))
          => (requests' = RemoveAt(requests, i) /\ intervals' = intervals
              /\ toastTimers' = toastTimers /\ last'.started = <<>>) ]_vars

\* C30: a refresh that fails, with a 401 or 403 or otherwise, is not retried:
\* its settling issues no request, and the first request after it is issued by
\* a tick, a visibility transition or an action of the user (the manual
\* button, navigation, the notification test button).
C30_FailedRefreshNotRetried ==
  /\ FailedSettleIssuesNothing
  /\ [][ (last.act \in {"FetchFailed", "FetchUnauthorized"}
          /\ Len(requests') > Len(requests))
           => \/ \E t \in intervals : Tick(t)
              \/ VisibilityChange
              \/ ManualRefresh
              \/ TestNotify
              \/ \E p \in {"dashboard", "new-order"} : Navigate(p) ]_vars

\* C31: once a GET was answered with 401 or 403, the stored token is gone and
\* the user is logged out: when that GET has settled, nobody is authenticated.
C31_UnauthorizedLogsOut ==
  last.act = "FetchUnauthorized" => (~hasToken /\ userRole = "none")

\* C32: when a successful refresh of the mounted Dashboard settles, the
\* snapshot and the counts become those of its response, whatever other
\* refresh was issued before or after it and whatever settled before it: of two
\* refreshes in flight together, the one that settles last gives the snapshot.
C32_LastCompletionWins ==
  [][ \A i \in 1..MaxInFlight :
        (i <= Len(requests) /\ requests[i].st = "ok" /\ requests[i].own /\ FetchSettle(i))
          => (orders' = requests[i].body /\ stats' = ComputeStats(requests[i].body)) ]_vars

\* C32 witness: the mount-time refresh and a tick's refresh were in flight
\* together, the tick's settled first and the mount-time one, issued first,
\* settled last; the snapshot is the older list it carried, not the backend's.
C32_Witness ==
  /\ last.act = "FetchOk"
  /\ last.before = "tick"
  /\ last.settled = "mount"
  /\ requests = <<>>
  /\ orders # <<>>
  /\ orders # backend

\* C32 witness of the other order: the refresh issued last settled last.
C32_WitnessInOrder ==
  /\ last.act = "FetchOk"
  /\ last.before = "mount"
  /\ last.settled = "tick"
  /\ requests = <<>>
  /\ orders = backend

C34_DisablingAbortsNothing ==
  [][ /\ (ToggleAutoRefresh /\ isAutoRefreshEnabled)
         => (/\ requests' = requests
             /\ ~isAutoRefreshEnabled'
             /\ \A t \in intervals' : t.h # intervalRef)
      /\ \A i \in 1..MaxInFlight :
           (/\ i <= Len(requests) /\ requests[i].st = "ok" /\ requests[i].own
            /\ ~isAutoRefreshEnabled /\ FetchSettle(i))
             => (orders' = requests[i].body /\ stats' = ComputeStats(requests[i].body)) ]_vars

\* C34 witness: a tick's refresh was in flight when the operator switched
\* auto-refresh off; it has settled successfully afterwards, no timer is live
\* and the snapshot is the list the backend held.
C34_Witness ==
  /\ last.act = "FetchOk"
  /\ last.settled = "tick"
  /\ ~isAutoRefreshEnabled
  /\ userDisabled
  /\ intervals = {}
  /\ orders # <<>>
  /\ orders = backend

\* the toast a pending timer was started for is in the active sequence: it
\* carries the timer's id and the timeout the timer was started with
OwnToastActive(t) ==
  \E i \in 1..Len(toasts) : toasts[i].id = t.id /\ toasts[i].timeout = t.tmo

\* C35: when the expiry timer of a toast fires that was taken out of the
\* active sequence before (removeToast or clearToasts), the sequence stays as
\* it is: no toast is removed, none that was created after the removal either.
C35_TimerOfRemovedToastRemovesNothing ==
  [][ \A t \in toastTimers :
        (ToastExpire(t) /\ ~OwnToastActive(t)) => toasts' = toasts ]_vars

\* the severity expected of the toast for a status of the table
ExpectedSeverity(status) ==
  CASE status \in {"received", "preparing", "in_transit"} -> "info"
    [] status = "delivered" -> "success"
    [] status = "cancelled" -> "warning"
    [] status = "returned"  -> "error"

\* C36: the toast notifyOrderStatusChange emits for a status of the table,
\* at once or after the permission prompt was answered, has the severity of
\* that status: info for received, preparing and in transit, success for
\* delivered, warning for cancelled, error for returned.
C36_ToastSeverityFollowsTable ==
  /\ [][ \A orderId \in {1, TestOrderId}, status \in TableStatuses :
           (CallNotify(orderId, status) /\ obs'.toasted)
             => (/\ Len(toasts') = Len(toasts) + 1
                 /\ toasts'[Len(toasts')].type = ExpectedSeverity(status)) ]_vars
  /\ [][ \A result \in {"granted", "denied", "default"} :
           (/\ prompt.open /\ prompt.from = "notify" /\ prompt.status \in TableStatuses
            /\ PromptAnswer(result) /\ obs'.toasted)
             => (/\ Len(toasts') = Len(toasts) + 1
                 /\ toasts'[Len(toasts')].type = ExpectedSeverity(prompt.status)) ]_vars

\* C36 witness: notifyOrderStatusChange was called for a returned order and its
\* toast, of severity error, is shown.
C36_Witness ==
  /\ last.act = "CallNotify"
  /\ obs.toasted
  /\ obs.notified[1].status = "returned"
  /\ toasts # <<>>
  /\ toasts[Len(toasts)].type = "error"

\* C36 witness of the other path: the toast for a delivered order was emitted
\* after the permission prompt had been answered with a refusal.
C36_WitnessAfterPrompt ==
  /\ last.act = "PromptAnswer"
  /\ obs.toasted
  /\ permission = "denied"
  /\ toasts # <<>>
  /\ toasts[Len(toasts)].type = "success"

\* C37: every showBrowserNotification call settles and asks the OS for
\* permission at most once: no call goes on requesting permission without end.
C37_CallSettlesWithOneRequest == ~spinning

\* the number of GETs in flight that handleStatusUpdate issued
UpdateRequests(reqs) == Cardinality({i \in 1..Len(reqs) : reqs[i].cause = "update"})

\* C38: handleStatusUpdate issues the PATCH first and no GET with it; when the
\* PATCH has succeeded it issues one GET and waits for it; it goes on to the
\* notification only when that GET has settled, whatever its outcome; when
\* the PATCH was rejected it issues no GET and notifies nobody.
C38_PatchThenRefreshThenNotify ==
  /\ [](/\ (upd.phase \in {"idle", "patch", "resume"} => UpdateRequests(requests) = 0)
        /\ (upd.phase = "refresh" => UpdateRequests(requests) = 1))
  /\ [][ /\ (\E s \in PickedStatuses : UpdateStart(s))
            => (upd'.phase = "patch" /\ requests' = requests /\ obs'.notified = <<>>)
         /\ PatchOk
            => (/\ upd.phase = "patch" /\ upd'.phase = "refresh"
                /\ Len(requests') = Len(requests) + 1
                /\ SubSeq(requests', 1, Len(requests)) = requests
                /\ requests'[Len(requests')].st = "pending"
                /\ requests'[Len(requests')].cause = "update"
                /\ obs'.notified = <<>>)
         /\ PatchRejected
            => (requests' = requests /\ obs'.notified = <<>> /\ upd' = NoUpdate)
         /\ (upd.phase = "refresh" /\ upd'.phase # "refresh")
            => (/\ upd'.phase = "resume"
                /\ \E i \in 1..Len(requests) :
                     /\ FetchSettle(i)
                     /\ requests[i].cause = "update"
                     /\ requests[i].st \in {"ok", "error"})
         /\ (obs'.notified # <<>> /\ ~EnvStep)
            => (UpdateResume /\ upd.phase = "resume"
                /\ UpdateRequests(requests') = 0) ]_vars

\* C38 witness: an update has gone its whole way; its refresh succeeded, the
\* snapshot shows the new status and the notifier was called.
C38_Witness ==
  /\ last.act = "UpdateResume"
  /\ Len(obs.notified) = 1
  /\ Shows(orders, obs.notified[1].orderId, obs.notified[1].status)
  /\ UpdateRequests(requests) = 0
  /\ upd = NoUpdate

\* C38 witness of the failed refresh: the PATCH succeeded, the refresh failed,
\* and the notifier was called all the same; the backend shows the new status,
\* the snapshot does not.
C38_WitnessRefreshFailed ==
  /\ last.act = "UpdateResume"
  /\ Len(obs.notified) = 1
  /\ Shows(backend, obs.notified[1].orderId, obs.notified[1].status)
  /\ ~Shows(orders, obs.notified[1].orderId, obs.notified[1].status)
  /\ requests = <<>>

\* C38 witness of the rejected PATCH: nothing is in flight after it.
C38_WitnessRejected ==
  /\ last.act = "PatchRejected"
  /\ requests = <<>>
  /\ obs.notified = <<>>

\* the requests in flight whose result the mounted Dashboard instance takes
OwnRequests(reqs) == {i \in 1..Len(reqs) : reqs[i].own}

\* C39: when a re-render of AppContent changes the Dashboard's key, the old
\* instance's interval timer is cancelled (the only live timer is the new
\* instance's, at its full period), and the new instance starts with an empty
\* snapshot, zero statistics, auto-refresh enabled and exactly one fetch of
\* its own, the mount-time one, pending, whether the page is visible or not.
C39_RemountStartsAfresh ==
  [][ (/\ Mounted
       /\ ~EnvStep
       /\ last'.started # <<>>
       /\ last'.started[Len(last'.started)] = "remount")
      => (/\ Cardinality(intervals') = 1
          /\ \A t \in intervals' : t.h = intervalRef' /\ t.rem = RefreshPeriod
          /\ orders' = <<>>
          /\ stats' = InitialStats
          /\ isAutoRefreshEnabled'
          /\ Cardinality(OwnRequests(requests')) = 1
          /\ requests'[Len(requests')] = NewRequest("mount", TRUE, FALSE)) ]_vars

\* C39 witness: a toast changed the key while the page was hidden and after
\* the operator had switched auto-refresh off; the new instance has auto-refresh on, a live timer and its fetch pending.
C39_Witness ==
  /\ last.act \in {"TestNotify", "ToastExpire", "RemoveToast"}
  /\ last.started # <<>>
  /\ last.started[Len(last.started)] = "remount"
  /\ docHidden
  /\ userDisabled
  /\ isAutoRefreshEnabled
  /\ orders = <<>>
  /\ Cardinality(intervals) = 1
  /\ Cardinality(OwnRequests(requests)) = 1
  /\ requests[Len(requests)] = NewRequest("mount", TRUE, FALSE)

\* the per-status count the statistics record holds for a recognised status
StatOf(st, s) ==
  CASE s = "received"   -> st.received
    [] s = "preparing"  -> st.preparing
    [] s = "in_transit" -> st.in_transit
    [] s = "delivered"  -> st.delivered
    [] s = "cancelled"  -> st.cancelled
    [] s = "returned"   -> st.returned

\* the sum of the six per-status counts
SixSum(st) ==
  st.received + st.preparing + st.in_transit + st.delivered + st.cancelled + st.returned

\* the snapshot's orders whose status is one of the six recognised values
Recognised(list) == {i \in 1..Len(list) : list[i].status \in TableStatuses}

\* C40: after a successful refresh, total is the length of the order list and
\* each of the six counts is the number of orders with exactly that status;
\* an order of unrecognised status is counted in total and in none of the
\* six, so the six sum to total exactly when every order is recognised.
C40_StatsCountRecognisedOnly ==
  last.act = "FetchOk" =>
    /\ stats.total = Len(orders)
    /\ \A s \in TableStatuses :
         StatOf(stats, s) = Cardinality({i \in 1..Len(orders) : orders[i].status = s})
    /\ SixSum(stats) = Cardinality(Recognised(orders))
    /\ (SixSum(stats) = stats.total) <=> (Recognised(orders) = 1..Len(orders))

\* C40 witness: a refresh delivered one order of unknown status beside a
\* recognised one; total is two and the six counts sum to one.
C40_Witness ==
  /\ last.act = "FetchOk"
  /\ Len(orders) = 2
  /\ \E i \in 1..2 : orders[i].status = "unknown"
  /\ stats.total = 2
  /\ SixSum(stats) = 1

\* C40 witness of the recognised case: both orders have one of the six
\* statuses, different ones, and the six counts sum to total.
C40_WitnessAllRecognised ==
  /\ last.act = "FetchOk"
  /\ Len(orders) = 2
  /\ Recognised(orders) = {1, 2}
  /\ orders[1].status # orders[2].status
  /\ SixSum(stats) = 2
  /\ stats.total = 2

====
